---------------------------- MODULE Spec2Model ----------------------------
(***************************************************************************)
(* Model of analyzeSalesData (src/src/main.js, identical in                *)
(* src/unnamed/part_000) with the two policies of main.js,                 *)
(* calculateSimpleRevenue and calculateBonusByProfit.                      *)
(*                                                                         *)
(* Numbers.  A JavaScript number n is the integer n * 10000 (four decimal  *)
(* places); quantities, discounts (percent), ranks and counts are plain    *)
(* integers.  The input domains below hold only values whose products and  *)
(* sums are exact to four decimals, so the integer arithmetic agrees with  *)
(* the doubles of the program up to an error far below the 0.005 that      *)
(* toFixed(2) resolves.  A value that may be undefined or NaN (a record's  *)
(* total_amount, a seller's revenue) is a tagged record, see Num.          *)
(*                                                                         *)
(* Objects.  products_sold is a sequence of (sku, quantity) pairs in       *)
(* insertion order, which is the order Object.entries gives for the        *)
(* non-index string keys used as SKUs.  sellerIndex maps a seller id to    *)
(* the position of its accumulator in sellerStats (the code holds a        *)
(* reference to the same object).                                          *)
(***************************************************************************)
EXTENDS Integers, Sequences, FiniteSets, TLC

VARIABLES data, options, pc, err, sellerStats, sellerIndex, productIndex,
          ri, ii, bi, log, reports

vars == <<data, options, pc, err, sellerStats, sellerIndex, productIndex,
          ri, ii, bi, log, reports>>

---------------------------------------------------------------------------
(* Bounds *)

\* records + items of a generated purchase_records array
MaxSize == 4
\* products (and items of the single record) of the many-SKU input
NumManySkus == 12
\* sellers of the ranked input
NumRanked == 5

\* slice(0, 10)
TopN == 10

---------------------------------------------------------------------------
(* JavaScript values *)

Undefined == [t |-> "undefined", v |-> 0]
NaN == [t |-> "nan", v |-> 0]
Num(n) == [t |-> "num", v |-> n]

\* a + b on numbers that may be undefined or NaN
JsAdd(a, b) ==
    IF a.t = "num" /\ b.t = "num" THEN Num(a.v + b.v) ELSE NaN

Abs(n) == IF n < 0 THEN -n ELSE n

\* +x.toFixed(2) on a finite number: the nearest multiple of 0.01, a tie
\* going away from zero
ToFixed2Int(n) ==
    LET m == ((Abs(n) + 50) \div 100) * 100
    IN  IF n < 0 THEN -m ELSE m

\* +x.toFixed(2): NaN.toFixed(2) is "NaN"
ToFixed2(x) == IF x.t = "num" THEN Num(ToFixed2Int(x.v)) ELSE NaN

\* !x for the kinds of value an options slot or data may hold
Falsy(kind) == kind \in {"undefined", "null", "zero", "false", "emptyString"}

\* typeof x === "function"
IsFunction(kind) == kind = "function"

\* Array.isArray(c)
IsArray(c) == c.kind = "array"

Missing == [kind |-> "missing", elems |-> <<>>]
NotArray == [kind |-> "notArray", elems |-> <<>>]
Arr(s) == [kind |-> "array", elems |-> s]

---------------------------------------------------------------------------
(* Inputs *)

Seller(i) ==
    [id |-> i, first_name |-> "F" \o ToString(i), last_name |-> "L" \o ToString(i)]

\* seller ids of purchase records; 9 is the id of no seller
RecordSellerIds == {1, 2, 9}

SellerLists == {<<Seller(1)>>, <<Seller(1), Seller(2)>>,
                <<Seller(2), Seller(1), Seller(3)>>}

Catalog == <<[sku |-> "A", purchase_price |-> 100000],
             [sku |-> "B", purchase_price |-> 100000]>>

\* items of profit 100, 50 and -10, and one of "Z", the SKU of no product
ItemKinds ==
    {[sku |-> "A", quantity |-> 2, sale_price |-> 600000, discount |-> 0],
     [sku |-> "B", quantity |-> 1, sale_price |-> 1200000, discount |-> 50],
     [sku |-> "B", quantity |-> 2, sale_price |-> 100000, discount |-> 50],
     [sku |-> "Z", quantity |-> 3, sale_price |-> 600000, discount |-> 0]}

\* a record carries total_amount 40.126, or none
TotalAmounts == {Undefined, Num(401260)}

ItemSeqs(t) == [1..t -> ItemKinds]

\* the purchase_records arrays whose records and items number at most n,
\* every record with total_amount tot
RECURSIVE RecSeqs(_, _)
RecSeqs(n, tot) ==
    IF n = 0 THEN {<<>>}
    ELSE {<<>>} \cup
         UNION {UNION {{<<[seller_id |-> s, total_amount |-> tot, items |-> its]>> \o rest :
                          rest \in RecSeqs(n - 1 - t, tot)} :
                       s \in RecordSellerIds, its \in ItemSeqs(t)} : t \in 0..(n - 1)}

GeneratedData ==
    {[kind |-> "object", sellers |-> Arr(sl), products |-> Arr(Catalog),
      purchase_records |-> Arr(rs)] :
        sl \in SellerLists,
        rs \in UNION {RecSeqs(MaxSize, tot) \ {<<>>} : tot \in TotalAmounts}}

\* the example of the specification: one seller, one product X at 10, one
\* record without total_amount holding 2 X at 20 with no discount
SpecExample ==
    [kind |-> "object",
     sellers |-> Arr(<<Seller(1)>>),
     products |-> Arr(<<[sku |-> "X", purchase_price |-> 100000]>>),
     purchase_records |->
        Arr(<<[seller_id |-> 1, total_amount |-> Undefined,
               items |-> <<[sku |-> "X", quantity |-> 2, sale_price |-> 200000,
                            discount |-> 0]>>]>>)]

\* one record of one seller with NumManySkus distinct SKUs, in quantities
\* that are not in order, followed by one more sale of its first SKU
ManySku(i) == "S" \o ToString(i)
ManySkuItem(i) ==
    [sku |-> ManySku(i), quantity |-> ((i * 5) % 7) + 1, sale_price |-> 600000,
     discount |-> 0]
ManySkus ==
    [kind |-> "object",
     sellers |-> Arr(<<Seller(1), Seller(2)>>),
     products |-> Arr([i \in 1..NumManySkus |->
                          [sku |-> ManySku(i), purchase_price |-> 100000]]),
     purchase_records |->
        Arr(<<[seller_id |-> 1, total_amount |-> Num(401260),
               items |-> [i \in 1..NumManySkus |-> ManySkuItem(i)]],
              [seller_id |-> 1, total_amount |-> Num(401260),
               items |-> <<ManySkuItem(1)>>]>>)]

\* NumRanked sellers, the i-th selling i items of profit 50 in one record, so
\* that the order of the sellers is reversed and every bracket of
\* calculateBonusByProfit is met
RankedSellers ==
    [kind |-> "object",
     sellers |-> Arr([i \in 1..NumRanked |-> Seller(i)]),
     products |-> Arr(Catalog),
     purchase_records |->
        Arr([i \in 1..NumRanked |->
                [seller_id |-> i, total_amount |-> Num(401260),
                 items |-> [j \in 1..i |->
                              [sku |-> "B", quantity |-> 1, sale_price |-> 1200000,
                               discount |-> 50]]]])]

SalesData == GeneratedData \cup {SpecExample, ManySkus, RankedSellers}

\* data of every shape the first check tells apart
SampleSellers == Arr(<<Seller(1)>>)
SampleProducts == Arr(Catalog)
SampleRecords ==
    Arr(<<[seller_id |-> 1, total_amount |-> Num(401260), items |-> <<>>]>>)
ShapeData ==
    {[kind |-> k, sellers |-> Missing, products |-> Missing,
      purchase_records |-> Missing] : k \in {"undefined", "null"}}
    \cup
    {[kind |-> "object", sellers |-> s, products |-> p, purchase_records |-> r] :
        s \in {Missing, NotArray, Arr(<<>>), SampleSellers},
        p \in {Missing, NotArray, Arr(<<>>), SampleProducts},
        r \in {Missing, NotArray, Arr(<<>>), SampleRecords}}

\* what an options slot may hold; "undefined" is an absent slot
SlotKinds == {"undefined", "null", "zero", "false", "emptyString", "string",
              "object", "function"}
AllOptions ==
    {[kind |-> k, calculateRevenue |-> "undefined", calculateBonus |-> "undefined"] :
        k \in {"undefined", "null"}}
    \cup
    {[kind |-> "object", calculateRevenue |-> r, calculateBonus |-> b] :
        r \in SlotKinds, b \in SlotKinds}

\* { calculateRevenue: calculateSimpleRevenue, calculateBonus: calculateBonusByProfit }
Policies ==
    [kind |-> "object", calculateRevenue |-> "function", calculateBonus |-> "function"]

---------------------------------------------------------------------------
(* The policies of main.js *)

\* purchase.sale_price * purchase.quantity * (1 - purchase.discount / 100)
calculateSimpleRevenue(purchase, product) ==
    (purchase.sale_price * purchase.quantity * (100 - purchase.discount)) \div 100

calculateBonusByProfit(index, total, seller) ==
    IF index = 0 THEN (seller.profit * 15) \div 100
    ELSE IF index = 1 \/ index = 2 THEN (seller.profit * 10) \div 100
    ELSE IF index = total - 1 THEN 0
    ELSE (seller.profit * 5) \div 100

---------------------------------------------------------------------------
(* analyzeSalesData, step by step *)

\* Step 1: the condition under which the first error is thrown
IsInvalidDataNoProductCheck(d) ==
    \/ Falsy(d.kind)
    \/ ~IsArray(d.sellers) \/ Len(d.sellers.elems) = 0
    \/ ~IsArray(d.products)
    \/ ~IsArray(d.purchase_records) \/ Len(d.purchase_records.elems) = 0

IsInvalidData(d) ==
    \/ Falsy(d.kind)
    \/ ~IsArray(d.sellers) \/ Len(d.sellers.elems) = 0
    \/ ~IsArray(d.products) \/ Len(d.products.elems) = 0
    \/ ~IsArray(d.purchase_records) \/ Len(d.purchase_records.elems) = 0

\* Step 2: const { calculateRevenue, calculateBonus } = options || {}
RevenueSlot(o) == IF Falsy(o.kind) THEN "undefined" ELSE o.calculateRevenue
BonusSlot(o) == IF Falsy(o.kind) THEN "undefined" ELSE o.calculateBonus

\* !calculateRevenue || !calculateBonus
PolicyMissing(o) == Falsy(RevenueSlot(o)) \/ Falsy(BonusSlot(o))

\* typeof calculateRevenue !== "function" || typeof calculateBonus !== "function"
PolicyNotFunction(o) == ~IsFunction(RevenueSlot(o)) \/ ~IsFunction(BonusSlot(o))

\* Step 3: one accumulator per seller, in the order of data.sellers.  bonus
\* and top_products are the properties step 7 adds; until then they hold 0
\* and the empty array here.
NewStats(sellers) ==
    [i \in 1..Len(sellers) |->
        [id |-> sellers[i].id,
         name |-> sellers[i].first_name \o " " \o sellers[i].last_name,
         revenue |-> Num(0), profit |-> 0, sales_count |-> 0,
         products_sold |-> <<>>, bonus |-> 0, top_products |-> <<>>]]

\* Step 4: sellerIndex[seller.id] = seller, a later seller of the same id
\* replacing an earlier one
BuildSellerIndex(stats) ==
    [id \in {stats[i].id : i \in 1..Len(stats)} |->
        CHOOSE i \in 1..Len(stats) :
            stats[i].id = id /\ \A j \in 1..Len(stats) : stats[j].id = id => j <= i]

\* productIndex[product.sku] = product
BuildProductIndex(products) ==
    [sku \in {products[i].sku : i \in 1..Len(products)} |->
        CHOOSE i \in 1..Len(products) :
            products[i].sku = sku /\ \A j \in 1..Len(products) : products[j].sku = sku => j <= i]

\* index[key], 0 standing for undefined
Lookup(index, key) == IF key \in DOMAIN index THEN index[key] ELSE 0

\* Step 5, a record of a known seller: sales_count += 1; revenue += total_amount
CountSale(stats, s, record) ==
    [stats EXCEPT ![s].sales_count = @ + 1,
                  ![s].revenue = JsAdd(@, record.total_amount)]

\* products_sold[sku] = 0 when it holds nothing (or 0); products_sold[sku] += quantity
AddSold(sold, sku, quantity) ==
    IF \E j \in 1..Len(sold) : sold[j].sku = sku
    THEN [j \in 1..Len(sold) |->
            IF sold[j].sku = sku
            THEN [sku |-> sku, quantity |-> sold[j].quantity + quantity]
            ELSE sold[j]]
    ELSE Append(sold, [sku |-> sku, quantity |-> quantity])

\* Step 5, one item of a record of seller s: nothing for an unknown SKU
ApplyItemNoCost(stats, s, item, products, pidx) ==
    LET p == Lookup(pidx, item.sku)
    IN  IF p = 0 THEN stats
        ELSE [stats EXCEPT
                ![s].profit = @ + calculateSimpleRevenue(item, products[p]),
                ![s].products_sold = AddSold(@, item.sku, item.quantity)]

ApplyItemCountFirst(stats, s, item, products, pidx) ==
    LET p == Lookup(pidx, item.sku)
        counted == [stats EXCEPT
                      ![s].products_sold = AddSold(@, item.sku, item.quantity)]
    IN  IF p = 0 THEN counted
        ELSE [counted EXCEPT
                ![s].profit = @ + (calculateSimpleRevenue(item, products[p])
                                   - products[p].purchase_price * item.quantity)]

ApplyItem(stats, s, item, products, pidx) ==
    LET p == Lookup(pidx, item.sku)
    IN  IF p = 0 THEN stats
        ELSE LET product == products[p]
                 cost == product.purchase_price * item.quantity
                 revenue == calculateSimpleRevenue(item, product)
                 profit == revenue - cost
             IN  [stats EXCEPT
                    ![s].profit = @ + profit,
                    ![s].products_sold = AddSold(@, item.sku, item.quantity)]

\* Array.prototype.sort with (a, b) => b.profit - a.profit: descending, and
\* stable, so x goes behind every element whose profit is not smaller
InsertByProfit(sorted, x) ==
    LET k == Cardinality({j \in 1..Len(sorted) : sorted[j].profit >= x.profit})
    IN  SubSeq(sorted, 1, k) \o <<x>> \o SubSeq(sorted, k + 1, Len(sorted))

RECURSIVE SortPrefixByProfit(_, _)
SortPrefixByProfit(stats, n) ==
    IF n = 0 THEN <<>>
    ELSE InsertByProfit(SortPrefixByProfit(stats, n - 1), stats[n])

\* Step 6
SortByProfitAscending(stats) ==
    LET d == SortPrefixByProfit(stats, Len(stats))
    IN  [i \in 1..Len(d) |-> d[Len(d) + 1 - i]]

SortByProfit(stats) == SortPrefixByProfit(stats, Len(stats))

\* sort with (a, b) => b.quantity - a.quantity
InsertByQuantity(sorted, x) ==
    LET k == Cardinality({j \in 1..Len(sorted) : sorted[j].quantity >= x.quantity})
    IN  SubSeq(sorted, 1, k) \o <<x>> \o SubSeq(sorted, k + 1, Len(sorted))

RECURSIVE SortPrefixByQuantity(_, _)
SortPrefixByQuantity(sold, n) ==
    IF n = 0 THEN <<>>
    ELSE InsertByQuantity(SortPrefixByQuantity(sold, n - 1), sold[n])

Min(a, b) == IF a < b THEN a ELSE b

\* Object.entries(products_sold).map(...).sort(...).slice(0, 10)
TopProductsUnsorted(sold) == SubSeq(sold, 1, Min(TopN, Len(sold)))

TopProducts(sold) ==
    LET sorted == SortPrefixByQuantity(sold, Len(sold))
    IN  SubSeq(sorted, 1, Min(TopN, Len(sorted)))

\* Step 7 for the seller at position i (index i - 1)
AssignBonus(stats, i) ==
    [stats EXCEPT
        ![i].bonus = calculateBonusByProfit(i - 1, Len(stats), stats[i]),
        ![i].top_products = TopProducts(stats[i].products_sold)]

\* Step 8
Report(seller) ==
    [seller_id |-> seller.id,
     name |-> seller.name,
     revenue |-> ToFixed2(seller.revenue),
     profit |-> ToFixed2Int(seller.profit),
     sales_count |-> seller.sales_count,
     top_products |-> seller.top_products,
     bonus |-> ToFixed2Int(seller.bonus)]

Reports(stats) == [i \in 1..Len(stats) |-> Report(stats[i])]

---------------------------------------------------------------------------
(* analyzeSalesData as a function of valid data and the policies above: *)
(* the same steps, folded                                               *)

RECURSIVE FoldItems(_, _, _, _, _, _)
FoldItems(stats, s, items, n, products, pidx) ==
    IF n = 0 THEN stats
    ELSE ApplyItem(FoldItems(stats, s, items, n - 1, products, pidx),
                   s, items[n], products, pidx)

RECURSIVE FoldRecords(_, _, _, _, _, _)
FoldRecords(stats, sidx, records, n, products, pidx) ==
    IF n = 0 THEN stats
    ELSE LET before == FoldRecords(stats, sidx, records, n - 1, products, pidx)
             s == Lookup(sidx, records[n].seller_id)
         IN  IF s = 0 THEN before
             ELSE FoldItems(CountSale(before, s, records[n]), s, records[n].items,
                            Len(records[n].items), products, pidx)

RECURSIVE FoldBonus(_, _)
FoldBonus(stats, n) ==
    IF n = 0 THEN stats ELSE AssignBonus(FoldBonus(stats, n - 1), n)

analyzeSalesData(d) ==
    LET stats == NewStats(d.sellers.elems)
        folded == FoldRecords(stats, BuildSellerIndex(stats), d.purchase_records.elems,
                              Len(d.purchase_records.elems), d.products.elems,
                              BuildProductIndex(d.products.elems))
        sorted == SortByProfit(folded)
    IN  Reports(FoldBonus(sorted, Len(sorted)))

---------------------------------------------------------------------------
(* The run of one call analyzeSalesData(data, options) *)

\* log records what the call has done so far, in order: its three checks,
\* the creation of the accumulators, each record read by the forEach and each
\* call of a policy
Ev(op, a, b, c) == [op |-> op, a |-> a, b |-> b, c |-> c]

Records == data.purchase_records.elems
Products == data.products.elems

Init ==
    /\ \E call \in (ShapeData \X AllOptions) \cup (SalesData \X {Policies}) :
          data = call[1] /\ options = call[2]
    /\ pc = "start"
    /\ err = "none"
    /\ sellerStats = <<>>
    /\ sellerIndex = <<>>
    /\ productIndex = <<>>
    /\ ri = 0
    /\ ii = 0
    /\ bi = 0
    /\ log = <<>>
    /\ reports = <<>>

\* Step 1
CheckData ==
    /\ pc = "start"
    /\ log' = Append(log, Ev("checkData", 0, 0, 0))
    /\ IF IsInvalidData(data)
       THEN pc' = "error" /\ err' = "InvalidInput"
       ELSE pc' = "checkPresence" /\ err' = err
    /\ UNCHANGED <<data, options, sellerStats, sellerIndex, productIndex, ri, ii, bi,
                   reports>>

\* Step 2, first throw
CheckPresenceAfterPrepare ==
    /\ pc = "checkPresence"
    /\ log' = Append(log, Ev("checkPresence", 0, 0, 0))
    /\ sellerStats' = NewStats(data.sellers.elems)
    /\ IF PolicyMissing(options)
       THEN pc' = "error" /\ err' = "MissingPolicy"
       ELSE pc' = "checkType" /\ err' = err
    /\ UNCHANGED <<data, options, sellerIndex, productIndex, ri, ii, bi, reports>>

CheckPresence ==
    /\ pc = "checkPresence"
    /\ log' = Append(log, Ev("checkPresence", 0, 0, 0))
    /\ IF PolicyMissing(options)
       THEN pc' = "error" /\ err' = "MissingPolicy"
       ELSE pc' = "checkType" /\ err' = err
    /\ UNCHANGED <<data, options, sellerStats, sellerIndex, productIndex, ri, ii, bi,
                   reports>>

\* Step 2, second throw
CheckType ==
    /\ pc = "checkType"
    /\ log' = Append(log, Ev("checkType", 0, 0, 0))
    /\ IF PolicyNotFunction(options)
       THEN pc' = "error" /\ err' = "InvalidPolicyType"
       ELSE pc' = "prepare" /\ err' = err
    /\ UNCHANGED <<data, options, sellerStats, sellerIndex, productIndex, ri, ii, bi,
                   reports>>

\* Steps 3 and 4
Prepare ==
    /\ pc = "prepare"
    /\ log' = Append(log, Ev("createAccumulators", 0, 0, 0))
    /\ sellerStats' = NewStats(data.sellers.elems)
    /\ sellerIndex' = BuildSellerIndex(sellerStats')
    /\ productIndex' = BuildProductIndex(Products)
    /\ ri' = 1
    /\ pc' = "fold"
    /\ UNCHANGED <<data, options, err, ii, bi, reports>>

\* Step 5, the head of the forEach callback: a record of an unknown seller
\* is left at once
BeginRecordNoGuard ==
    /\ pc = "fold"
    /\ ri <= Len(Records)
    /\ log' = Append(log, Ev("readRecord", ri, 0, 0))
    /\ LET s == Lookup(sellerIndex, Records[ri].seller_id)
       IN  IF s = 0
           THEN /\ pc' = "error"
                /\ err' = "TypeError"
                /\ UNCHANGED <<sellerStats, ri, ii>>
           ELSE /\ sellerStats' = CountSale(sellerStats, s, Records[ri])
                /\ ii' = 1
                /\ pc' = "items"
                /\ UNCHANGED <<ri, err>>
    /\ UNCHANGED <<data, options, sellerIndex, productIndex, bi, reports>>

BeginRecord ==
    /\ pc = "fold"
    /\ ri <= Len(Records)
    /\ log' = Append(log, Ev("readRecord", ri, 0, 0))
    /\ LET s == Lookup(sellerIndex, Records[ri].seller_id)
       IN  IF s = 0
           THEN /\ ri' = ri + 1
                /\ UNCHANGED <<sellerStats, ii, pc>>
           ELSE /\ sellerStats' = CountSale(sellerStats, s, Records[ri])
                /\ ii' = 1
                /\ pc' = "items"
                /\ ri' = ri
    /\ UNCHANGED <<data, options, err, sellerIndex, productIndex, bi, reports>>

\* Step 5, one call of the inner forEach callback; calculateRevenue is called
\* behind the product guard
ProcessItem ==
    /\ pc = "items"
    /\ ii <= Len(Records[ri].items)
    /\ LET item == Records[ri].items[ii]
           s == Lookup(sellerIndex, Records[ri].seller_id)
       IN  /\ sellerStats' = ApplyItem(sellerStats, s, item, Products, productIndex)
           /\ log' = IF Lookup(productIndex, item.sku) = 0 THEN log
                     ELSE Append(log, Ev("calculateRevenue", ri, ii, 0))
    /\ ii' = ii + 1
    /\ UNCHANGED <<data, options, pc, err, sellerIndex, productIndex, ri, bi, reports>>

\* the inner forEach is over
EndRecord ==
    /\ pc = "items"
    /\ ii > Len(Records[ri].items)
    /\ ri' = ri + 1
    /\ pc' = "fold"
    /\ UNCHANGED <<data, options, err, sellerStats, sellerIndex, productIndex, ii, bi,
                   log, reports>>

\* Step 6; sellerIndex still refers to the same accumulators
SortSellers ==
    /\ pc = "fold"
    /\ ri > Len(Records)
    /\ sellerStats' = SortByProfit(sellerStats)
    /\ sellerIndex' = BuildSellerIndex(sellerStats')
    /\ bi' = 1
    /\ pc' = "bonus"
    /\ UNCHANGED <<data, options, err, productIndex, ri, ii, log, reports>>

\* Step 7, one call of the forEach callback
BonusStep ==
    /\ pc = "bonus"
    /\ bi <= Len(sellerStats)
    /\ log' = Append(log, Ev("calculateBonus", bi - 1, Len(sellerStats), sellerStats[bi].id))
    /\ sellerStats' = AssignBonus(sellerStats, bi)
    /\ bi' = bi + 1
    /\ UNCHANGED <<data, options, pc, err, sellerIndex, productIndex, ri, ii, reports>>

\* Step 8
Return ==
    /\ pc = "bonus"
    /\ bi > Len(sellerStats)
    /\ reports' = Reports(sellerStats)
    /\ pc' = "done"
    /\ UNCHANGED <<data, options, err, sellerStats, sellerIndex, productIndex, ri, ii, bi,
                   log>>

Next ==
    \/ CheckData
    \/ CheckPresence
    \/ CheckType
    \/ Prepare
    \/ BeginRecord
    \/ ProcessItem
    \/ EndRecord
    \/ SortSellers
    \/ BonusStep
    \/ Return

Spec == Init /\ [][Next]_vars

---------------------------------------------------------------------------
(* What the claims speak of, stated over the input *)

Terminal == pc \in {"done", "error"}

RECURSIVE SumSeq(_)
SumSeq(q) == IF q = <<>> THEN 0 ELSE Head(q) + SumSeq(Tail(q))

\* data is absent, or one of its three collections is missing, not an array
\* or empty
DataMalformed(d) ==
    \/ d.kind \in {"undefined", "null"}
    \/ \E c \in {d.sellers, d.products, d.purchase_records} :
          c.kind = "missing" \/ c.kind = "notArray" \/ (c.kind = "array" /\ c.elems = <<>>)

\* a policy is absent: options is, or the slot holds nothing
PolicyAbsent(o) ==
    \/ o.kind \in {"undefined", "null"}
    \/ o.calculateRevenue = "undefined"
    \/ o.calculateBonus = "undefined"

\* a call that passes the three checks
ValidCall == ~DataMalformed(data) /\ options = Policies

SellerIds(d) == {d.sellers.elems[i].id : i \in 1..Len(d.sellers.elems)}
ProductSkus(d) == {d.products.elems[i].sku : i \in 1..Len(d.products.elems)}
ProductOf(d, sku) ==
    d.products.elems[CHOOSE i \in 1..Len(d.products.elems) : d.products.elems[i].sku = sku]

\* the (record, item) positions of the items with a known SKU in the records
\* of seller id
KnownItems(d, id) ==
    LET recs == d.purchase_records.elems
    IN  UNION {{<<r, j>> : j \in {j \in 1..Len(recs[r].items) :
                                    recs[r].items[j].sku \in ProductSkus(d)}} :
               r \in {r \in 1..Len(recs) : recs[r].seller_id = id}}

ItemAt(d, r, j) == d.purchase_records.elems[r].items[j]

\* revenue minus cost of one item
ItemProfit(d, item) ==
    calculateSimpleRevenue(item, ProductOf(d, item.sku))
        - ProductOf(d, item.sku).purchase_price * item.quantity

ExpectedProfit(d, id) ==
    LET recs == d.purchase_records.elems
    IN  SumSeq([r \in 1..Len(recs) |->
            IF recs[r].seller_id # id THEN 0
            ELSE SumSeq([j \in 1..Len(recs[r].items) |->
                    IF recs[r].items[j].sku \in ProductSkus(d)
                    THEN ItemProfit(d, recs[r].items[j])
                    ELSE 0])])

\* the revenue the specification describes: total_amount where a record
\* carries one, the discounted revenue of its items where it does not
ExpectedRevenue(d, id) ==
    LET recs == d.purchase_records.elems
    IN  SumSeq([r \in 1..Len(recs) |->
            IF recs[r].seller_id # id THEN 0
            ELSE IF recs[r].total_amount.t = "num" THEN recs[r].total_amount.v
            ELSE SumSeq([j \in 1..Len(recs[r].items) |->
                    (recs[r].items[j].sale_price * recs[r].items[j].quantity
                        * (100 - recs[r].items[j].discount)) \div 100])])

KnownSkusSold(d, id) == {ItemAt(d, x[1], x[2]).sku : x \in KnownItems(d, id)}

CumQuantity(d, id, sku) ==
    LET recs == d.purchase_records.elems
    IN  SumSeq([r \in 1..Len(recs) |->
            IF recs[r].seller_id # id THEN 0
            ELSE SumSeq([j \in 1..Len(recs[r].items) |->
                    IF recs[r].items[j].sku = sku THEN recs[r].items[j].quantity ELSE 0])])

Calls(op) == SelectSeq(log, LAMBDA e : e.op = op)

RemoveAt(q, k) == SubSeq(q, 1, k - 1) \o SubSeq(q, k + 1, Len(q))

WithoutRecord(d, k) ==
    [d EXCEPT !.purchase_records.elems = RemoveAt(@, k)]

WithoutItem(d, k, j) ==
    [d EXCEPT !.purchase_records.elems[k].items = RemoveAt(@, j)]

\* The arithmetic of the model is exact on the inputs above: no division
\* of the policies leaves a remainder.
ExactArithmetic ==
    /\ ~DataMalformed(data) =>
          \A r \in 1..Len(Records) : \A j \in 1..Len(Records[r].items) :
              (Records[r].items[j].sale_price * Records[r].items[j].quantity
                  * (100 - Records[r].items[j].discount)) % 100 = 0
    /\ \A i \in 1..Len(sellerStats) :
          /\ (sellerStats[i].profit * 5) % 100 = 0
          /\ sellerStats[i].profit % 100 = 0

---------------------------------------------------------------------------
(* Claims *)

\* C1: the call ends in the invalid-input error, with no report, whenever
\* data is absent or one of data.sellers, data.products,
\* data.purchase_records is missing, not an array or empty; for any other
\* data the invalid-input error is never raised.
C1_InvalidInput ==
    /\ (Terminal /\ DataMalformed(data)) =>
          (pc = "error" /\ err = "InvalidInput" /\ reports = <<>>)
    /\ ~DataMalformed(data) => err # "InvalidInput"

C1_Witness ==
    /\ pc = "error"
    /\ err = "InvalidInput"
    /\ data.kind = "object"
    /\ data.sellers = SampleSellers
    /\ data.products = Arr(<<>>)
    /\ data.purchase_records = SampleRecords
    /\ options = Policies

\* C2: for valid data the call ends in the missing-policy error exactly when
\* calculateRevenue or calculateBonus (or options) is absent, and in the
\* invalid-policy-type error whenever both slots are present and one holds a
\* value that is not callable, whatever that value is (0, false, "", null
\* included).
C2_PolicyErrors ==
    (Terminal /\ ~DataMalformed(data)) =>
        /\ (err = "MissingPolicy") <=> PolicyAbsent(options)
        /\ (/\ ~PolicyAbsent(options)
            /\ (options.calculateRevenue # "function" \/ options.calculateBonus # "function"))
              => err = "InvalidPolicyType"

\* C3: a call that ends in one of the three errors has created no
\* accumulator, read no purchase record and called no policy: it has made
\* only its checks, the data check first, then the presence check, then the
\* type check, and ended at the first that failed.
C3_FailFast ==
    (err # "none") =>
        /\ err \in {"InvalidInput", "MissingPolicy", "InvalidPolicyType"}
        /\ pc = "error"
        /\ sellerStats = <<>>
        /\ ri = 0
        /\ reports = <<>>
        /\ log = SubSeq(<<Ev("checkData", 0, 0, 0), Ev("checkPresence", 0, 0, 0),
                          Ev("checkType", 0, 0, 0)>>, 1,
                        CASE err = "InvalidInput" -> 1
                          [] err = "MissingPolicy" -> 2
                          [] OTHER -> 3)
        /\ err = "InvalidInput" <=> DataMalformed(data)
        /\ err = "MissingPolicy" =>
              (Falsy(RevenueSlot(options)) \/ Falsy(BonusSlot(options)))
        /\ err = "InvalidPolicyType" =>
              (~Falsy(RevenueSlot(options)) /\ ~Falsy(BonusSlot(options)))

C3_Witness ==
    /\ pc = "error"
    /\ err = "MissingPolicy"
    /\ ~DataMalformed(data)
    /\ options.kind = "object"
    /\ options.calculateRevenue = "string"
    /\ options.calculateBonus = "undefined"

\* C4: a seller's reported revenue is the sum over the seller's records of
\* total_amount where the record carries one and of the discounted revenue
\* of its items where it does not; the example of the specification (no
\* total_amount, 2 items at 20, no discount) reports revenue 40.
C4_Revenue ==
    (pc = "done") =>
        /\ \A i \in 1..Len(reports) :
              reports[i].revenue =
                  Num(ToFixed2Int(ExpectedRevenue(data, reports[i].seller_id)))
        /\ data = SpecExample => reports[1].revenue = Num(400000)

\* C5: with calculateBonusByProfit and exactly two sellers of profits 100 and
\* 50, the first has bonus 15 and the second, who is also the last, bonus 0.
C5_TwoSellers ==
    (/\ pc = "done"
     /\ Len(reports) = 2
     /\ reports[1].profit = 1000000
     /\ reports[2].profit = 500000) =>
        (reports[1].bonus = 150000 /\ reports[2].bonus = 0)

\* C6: the reports are in order of non-increasing profit, one per seller, and
\* calculateBonus was called once per report, in that order, with the
\* report's 0-based position, the number of reports and that seller.
C6_Ranking ==
    (pc = "done") =>
        /\ Len(reports) = Len(data.sellers.elems)
        /\ \A i \in 1..(Len(reports) - 1) : reports[i].profit >= reports[i + 1].profit
        /\ Calls("calculateBonus") =
              [i \in 1..Len(reports) |->
                  Ev("calculateBonus", i - 1, Len(reports), reports[i].seller_id)]

C6_Witness ==
    /\ pc = "done"
    /\ Len(reports) = 3
    /\ reports[1].seller_id # data.sellers.elems[1].id
    /\ reports[1].profit > reports[2].profit
    /\ reports[2].profit > reports[3].profit

\* C7: once the records are folded, every seller's accumulated profit is the
\* sum of revenue minus cost over the items with a known SKU in that seller's
\* records (0 when there is none), and calculateRevenue was called exactly
\* once for each such item and for no other.
C7_Profit ==
    (pc \in {"bonus", "done"}) =>
        /\ \A i \in 1..Len(sellerStats) :
              sellerStats[i].profit = ExpectedProfit(data, sellerStats[i].id)
        /\ \A r \in 1..Len(Records) : \A j \in 1..Len(Records[r].items) :
              Len(SelectSeq(log, LAMBDA e : e = Ev("calculateRevenue", r, j, 0))) =
                  IF /\ Records[r].seller_id \in SellerIds(data)
                     /\ Records[r].items[j].sku \in ProductSkus(data)
                  THEN 1 ELSE 0
        /\ Len(Calls("calculateRevenue")) =
              Cardinality(UNION {KnownItems(data, id) : id \in SellerIds(data)})

C7_Witness ==
    /\ pc = "done"
    /\ \E i \in 1..Len(sellerStats) :
          /\ Cardinality(KnownItems(data, sellerStats[i].id)) = 2
          /\ Cardinality({x[1] : x \in KnownItems(data, sellerStats[i].id)}) = 2
          /\ sellerStats[i].profit = 1500000
    /\ \E i \in 1..Len(sellerStats) :
          /\ KnownItems(data, sellerStats[i].id) = {}
          /\ sellerStats[i].profit = 0

\* the records of no seller of the input
UnknownSellerRecords ==
    {k \in 1..Len(Records) : Records[k].seller_id \notin SellerIds(data)}

\* C8: a record whose seller_id is the id of no seller is ignored: the call
\* raises no error, calculateRevenue is called for none of its items, and the
\* reports are those of the same input without that record (where a record
\* remains).
C8_UnknownSeller ==
    /\ ValidCall => \A k \in UnknownSellerRecords :
          \A i \in 1..Len(log) : ~(log[i].op = "calculateRevenue" /\ log[i].a = k)
    /\ (Terminal /\ ValidCall) => \A k \in UnknownSellerRecords :
          /\ pc = "done"
          /\ err = "none"
          /\ Len(Records) > 1 => reports = analyzeSalesData(WithoutRecord(data, k))

C8_Witness ==
    /\ pc = "done"
    /\ \E k \in UnknownSellerRecords :
          /\ \E j \in 1..Len(Records[k].items) : Records[k].items[j].sku \in ProductSkus(data)
          /\ \E r \in 1..Len(Records) : r > k /\ <<r, 1>> \in KnownItems(data, Records[r].seller_id)
          /\ reports = analyzeSalesData(WithoutRecord(data, k))

\* the items whose SKU is the SKU of no product
UnknownSkuItems ==
    UNION {{<<k, j>> : j \in {j \in 1..Len(Records[k].items) :
                                Records[k].items[j].sku \notin ProductSkus(data)}} :
           k \in 1..Len(Records)}

\* C9: an item whose SKU is the SKU of no product is ignored: the call raises
\* no error, the SKU enters no products_sold and no top_products,
\* calculateRevenue is not called for it, and the reports are those of the
\* same input without that item.
C9_UnknownSku ==
    ValidCall =>
        /\ \A i \in 1..Len(sellerStats) : \A n \in 1..Len(sellerStats[i].products_sold) :
              sellerStats[i].products_sold[n].sku \in ProductSkus(data)
        /\ \A x \in UnknownSkuItems :
              /\ \A i \in 1..Len(log) :
                    ~(log[i].op = "calculateRevenue" /\ log[i].a = x[1] /\ log[i].b = x[2])
              /\ Terminal =>
                    /\ pc = "done"
                    /\ err = "none"
                    /\ \A i \in 1..Len(reports) : \A n \in 1..Len(reports[i].top_products) :
                          reports[i].top_products[n].sku # ItemAt(data, x[1], x[2]).sku
                    /\ reports = analyzeSalesData(WithoutItem(data, x[1], x[2]))

C9_Witness ==
    /\ pc = "done"
    /\ \E x \in UnknownSkuItems :
          /\ x[2] = 1
          /\ <<x[1], 2>> \in KnownItems(data, Records[x[1]].seller_id)
          /\ reports = analyzeSalesData(WithoutItem(data, x[1], x[2]))
          /\ \E i \in 1..Len(reports) :
                /\ reports[i].seller_id = Records[x[1]].seller_id
                /\ Len(reports[i].top_products) = 1

\* C10: every report's top_products has min(10, number of distinct SKUs sold
\* by the seller) entries, in order of non-increasing quantity, each a
\* distinct SKU of a known-SKU item of the seller's records with the
\* cumulative quantity of that SKU, and no SKU left out has a larger
\* cumulative quantity than one kept.
C10_TopProducts ==
    (pc = "done") => \A i \in 1..Len(reports) :
        LET tp == reports[i].top_products
            id == reports[i].seller_id
            sold == KnownSkusSold(data, id)
        IN  /\ Len(tp) = Min(TopN, Cardinality(sold))
            /\ \A n \in 1..(Len(tp) - 1) : tp[n].quantity >= tp[n + 1].quantity
            /\ \A n \in 1..Len(tp) :
                  /\ tp[n].sku \in sold
                  /\ tp[n].quantity = CumQuantity(data, id, tp[n].sku)
                  /\ \A m \in 1..Len(tp) : tp[m].sku = tp[n].sku => m = n
            /\ \A sku \in sold \ {tp[n].sku : n \in 1..Len(tp)} :
                  \A n \in 1..Len(tp) : CumQuantity(data, id, sku) <= tp[n].quantity

C10_Witness ==
    /\ pc = "done"
    /\ \E i \in 1..Len(reports) :
          /\ Cardinality(KnownSkusSold(data, reports[i].seller_id)) > TopN
          /\ Len(reports[i].top_products) = TopN
          /\ reports[i].top_products[1].quantity > reports[i].top_products[TopN].quantity

===========================================================================
